---- MODULE Spec2Model ----
(***************************************************************************)
(* Hearts engine of nickhart/memory (packages/hearts): the game state      *)
(* machine (game.ts), the trick engine (trick.ts) and the scoring engine   *)
(* (scoring.ts).  Every engine function is a pure function GameState ->    *)
(* GameState in the source and is an operator of the same name here; the   *)
(* actions apply them to the single retained snapshot `state`.             *)
(*                                                                         *)
(* Scale: the deck is 4 suits x |Ranks| ranks instead of 4 x 13, so a hand *)
(* has HandSize = |Ranks| cards and |Ranks| tricks.  Everything else (4    *)
(* players, 3 cards passed, the rules) is as in the source.  The points of *)
(* a whole deck, 26 in the source, are MoonPoints = |Ranks| + 13.          *)
(*                                                                         *)
(* A card is its id; Suit(c) and Rank(c) are its fields.  Rank is the      *)
(* number getRankOrder gives it (2..14; Queen 12, Ace 14).  isFaceUp and   *)
(* the players' id/name strings carry no behaviour; a player id is the     *)
(* seat index ("player-<index>" in createPlayers).                         *)
(***************************************************************************)
EXTENDS Integers, Sequences, FiniteSets, TLC

VARIABLES state

vars == <<state>>

\* ---------------------------------------------------------------- bounds
\* How many different shuffles createHeartsDeck may produce.
NumShuffles == 1

\* playCard does not look at the size of the current trick, which can grow as
\* long as hands last; the model stops feeding it at this many cards.
MaxTrickCards == 5

\* ----------------------------------------------------------------- cards
Clubs == "clubs"
Diamonds == "diamonds"
Spades == "spades"
Hearts == "hearts"

\* Suit order used by the hand sort
suitOrder == <<Clubs, Diamonds, Spades, Hearts>>

\* Ranks of the scaled deck (Two, Five, Queen, Ace)
Ranks == {2, 5, 12, 14}

HandSize == Cardinality(Ranks)

PlayerIds == 0..3

\* null of a player id (winnerId, moonShooter) and of a suit (leadingSuit)
Null == -1

NoSuit == "null"

CardId(suitIndex, rank) == suitIndex * 100 + rank

Suit(c) == suitOrder[(c \div 100) + 1]

Rank(c) == c % 100

AllCards == {CardId(s, r) : s \in 0..3, r \in Ranks}

TwoOfClubs == CardId(0, 2)

QueenOfSpades == CardId(2, 12)

isTwoOfClubs(c) == Rank(c) = 2 /\ Suit(c) = Clubs

isQueenOfSpades(c) == Suit(c) = Spades /\ Rank(c) = 12

\* ------------------------------------------------------- sequence helpers
Range(s) == {s[i] : i \in DOMAIN s}

\* Array.prototype.some / every / filter / find
some(s, P(_)) == \E i \in DOMAIN s : P(s[i])

every(s, P(_)) == \A i \in DOMAIN s : P(s[i])

filter(s, P(_)) == SelectSeq(s, P)

\* ---------------------------------------------------------------- enums
Dealing == "dealing"
Passing == "passing"
Playing == "playing"
HandComplete == "hand_complete"
GameOver == "game_over"

Left == "left"
Right == "right"
Across == "across"
None == "none"

\* ------------------------------------------------------- scoring engine
getPointValue_QueenOnly(card) == IF Suit(card) = Spades /\ Rank(card) = 12 THEN 13 ELSE 0

getPointValue_HeartsOnly(card) == IF Suit(card) = Hearts THEN 1 ELSE 0

getPointValue(card) ==
    IF Suit(card) = Hearts THEN 1
    ELSE IF Suit(card) = Spades /\ Rank(card) = 12 THEN 13
    ELSE 0

RECURSIVE sumPoints(_)
sumPoints(trick) ==
    IF trick = <<>> THEN 0
    ELSE getPointValue(Head(trick)) + sumPoints(Tail(trick))

RECURSIVE calculateHandScore(_)
calculateHandScore(tricksTaken) ==
    IF tricksTaken = <<>> THEN 0
    ELSE sumPoints(Head(tricksTaken)) + calculateHandScore(Tail(tricksTaken))

\* All the points of a deck: one per Hearts card and 13 for the Queen of
\* Spades.  26 in the source (13 Hearts); scaled with the deck.
MoonPoints == Cardinality(Ranks) + 13

checkShootMoon_Never(players) == Null

\* first player (in seat order) whose tricks are worth exactly MoonPoints, else
\* Null
checkShootMoon(players) ==
    LET shooters == {p \in PlayerIds : calculateHandScore(players[p].tricksTaken) = MoonPoints}
    IN IF shooters = {} THEN Null
       ELSE CHOOSE p \in shooters : \A q \in shooters : p <= q

applyScores_Above100(s) ==
    LET players == [p \in PlayerIds |->
                      [s.players[p] EXCEPT !.handScore = calculateHandScore(s.players[p].tricksTaken)]]
        moonShooter == checkShootMoon(players)
        updatedPlayers == [p \in PlayerIds |->
            IF moonShooter # Null
            THEN IF p = moonShooter
                 THEN [players[p] EXCEPT !.handScore = 0]
                 ELSE [players[p] EXCEPT !.score = players[p].score + MoonPoints,
                                         !.handScore = MoonPoints]
            ELSE [players[p] EXCEPT !.score = players[p].score + players[p].handScore]]
        gameOver == \E p \in PlayerIds : updatedPlayers[p].score > 100
    IN [s EXCEPT !.players = updatedPlayers,
                 !.phase = IF gameOver THEN GameOver ELSE HandComplete]

applyScores(s) ==
    LET players == [p \in PlayerIds |->
                      [s.players[p] EXCEPT !.handScore = calculateHandScore(s.players[p].tricksTaken)]]
        moonShooter == checkShootMoon(players)
        updatedPlayers == [p \in PlayerIds |->
            IF moonShooter # Null
            THEN IF p = moonShooter
                 THEN [players[p] EXCEPT !.handScore = 0]
                 ELSE [players[p] EXCEPT !.score = players[p].score + MoonPoints,
                                         !.handScore = MoonPoints]
            ELSE [players[p] EXCEPT !.score = players[p].score + players[p].handScore]]
        gameOver == \E p \in PlayerIds : updatedPlayers[p].score >= 100
    IN [s EXCEPT !.players = updatedPlayers,
                 !.phase = IF gameOver THEN GameOver ELSE HandComplete]

\* --------------------------------------------------------- trick engine
canFollowSuit_Never(hand, suit) == FALSE

canFollowSuit(hand, suit) == some(hand, LAMBDA card : Suit(card) = suit)

canLeadHearts_Always(s, hand) == TRUE

canLeadHearts(s, hand) ==
    IF s.heartsBroken THEN TRUE
    ELSE every(hand, LAMBDA card : Suit(card) = Hearts)

\* Hearts or the Queen of Spades: what may not be sloughed on the first trick
isForbiddenOnFirstTrick(c) == Suit(c) = Hearts \/ (Suit(c) = Spades /\ Rank(c) = 12)

firstTrickLead_Any(hand) == hand

\* leading the very first trick: hand.find(two of clubs), alone, or nothing
firstTrickLead(hand) ==
    IF some(hand, isTwoOfClubs)
    THEN <<hand[CHOOSE i \in DOMAIN hand : isTwoOfClubs(hand[i])
                     /\ \A j \in 1..(i-1) : ~isTwoOfClubs(hand[j])]>>
    ELSE <<>>

firstTrickBreakSuit_Any(hand) == hand

\* breaking suit on the first trick: the allowed cards, or the forbidden ones
\* when nothing else is held
firstTrickBreakSuit(hand) ==
    LET forbidden == filter(hand, isForbiddenOnFirstTrick)
        allowed == filter(hand, LAMBDA c : ~isForbiddenOnFirstTrick(c))
    IN IF Len(allowed) > 0 THEN allowed ELSE forbidden

getValidPlays(s, playerId) ==
    IF playerId \notin PlayerIds THEN <<>>
    ELSE
    LET hand == s.players[playerId].hand
        currentTrick == s.currentTrick
    IN IF Len(currentTrick.cards) = 0
       THEN IF s.firstTrick
            THEN firstTrickLead(hand)
            ELSE LET nonHearts == filter(hand, LAMBDA c : Suit(c) # Hearts)
                 IN IF ~canLeadHearts(s, hand) /\ Len(nonHearts) > 0
                    THEN nonHearts
                    ELSE hand
       ELSE IF canFollowSuit(hand, currentTrick.leadingSuit)
            THEN filter(hand, LAMBDA c : Suit(c) = currentTrick.leadingSuit)
            ELSE IF s.firstTrick
                 THEN firstTrickBreakSuit(hand)
                 ELSE hand

isValidPlay(s, playerId, card) ==
    some(getValidPlays(s, playerId), LAMBDA c : c = card)

getRankOrder(rank) == rank

\* the loop of determineTrickWinner from index i on: index of the winning entry
RECURSIVE winnerScan(_, _, _)
winnerScan(trick, i, winning) ==
    IF i > Len(trick.cards) THEN winning
    ELSE LET card == trick.cards[i].card
         IN IF Suit(card) = trick.leadingSuit
               /\ getRankOrder(Rank(card)) > getRankOrder(Rank(trick.cards[winning].card))
            THEN winnerScan(trick, i + 1, i)
            ELSE winnerScan(trick, i + 1, winning)

determineTrickWinner_AnySuit(trick) ==
    IF Len(trick.cards) = 0 \/ trick.leadingSuit = NoSuit THEN Null
    ELSE trick.cards[CHOOSE i \in DOMAIN trick.cards :
                        \A j \in DOMAIN trick.cards :
                            \/ Rank(trick.cards[j].card) < Rank(trick.cards[i].card)
                            \/ (Rank(trick.cards[j].card) = Rank(trick.cards[i].card) /\ i <= j)].playerId

determineTrickWinner(trick) ==
    IF Len(trick.cards) = 0 \/ trick.leadingSuit = NoSuit THEN Null
    ELSE trick.cards[winnerScan(trick, 2, 1)].playerId

trickContainsHearts_OrQueen(trick) ==
    some(trick.cards, LAMBDA c : Suit(c.card) = Hearts \/ isQueenOfSpades(c.card))

trickContainsHearts(trick) == some(trick.cards, LAMBDA c : Suit(c.card) = Hearts)

trickContainsPoints(trick) == some(trick.cards, LAMBDA c : getPointValue(c.card) > 0)

\* ---------------------------------------------------- game state machine
\* createHeartsDeck: createStandardDeck (rank-major over ALL_SUITS) shuffled.
\* shuffle is Fisher-Yates on Math.random: any permutation can come out; the
\* model draws from NumShuffles fixed permutations of the scaled deck.
ShuffledDecks ==
    << \* dealt: seat 0 5C QC 5D QH, seat 1 2C QD 5S AS, seat 2 AC 2D AD 2H, seat 3 2S QS 5H AH
       << 314, 302, 214, 312, 305, 114, 205, 105, 212, 102, 112, 12, 202, 14, 2, 5 >>,
       \* dealt: seat 0 2D AD 5H QH, seat 1 5D 2S 5S 2H, seat 2 5C QC QD QS, seat 3 2C AC AS AH
       << 314, 212, 302, 312, 214, 112, 205, 305, 14, 12, 202, 114, 2, 5, 105, 102 >> >>

createHeartsDeck ==
    {ShuffledDecks[((k - 1) % Len(ShuffledDecks)) + 1] : k \in 1..NumShuffles}

getPassDirection_AlwaysLeft(handNumber) == Left

getPassDirection(handNumber) == <<Left, Right, Across, None>>[(handNumber % 4) + 1]

EmptyTrick == [cards |-> <<>>, leadingSuit |-> NoSuit, winnerId |-> Null]

createPlayers ==
    [p \in PlayerIds |->
        [hand |-> <<>>, tricksTaken |-> <<>>, score |-> 0, handScore |-> 0,
         selectedCards |-> {}, isReady |-> FALSE]]

createGame(deck) ==
    [phase |-> Dealing,
     players |-> createPlayers,
     currentPlayerIndex |-> 0,
     currentTrick |-> EmptyTrick,
     completedTricks |-> <<>>,
     passDirection |-> getPassDirection(0),
     heartsBroken |-> FALSE,
     firstTrick |-> TRUE,
     handNumber |-> 0,
     deck |-> deck]

indexOf(seq, x) == CHOOSE i \in DOMAIN seq : seq[i] = x

\* the comparator of both hand sorts: negative iff a goes before b
compareCards(a, b) ==
    IF Suit(a) # Suit(b)
    THEN indexOf(suitOrder, Suit(a)) - indexOf(suitOrder, Suit(b))
    ELSE Rank(a) - Rank(b)

RECURSIVE sortHand(_)
sortHand(hand) ==
    IF hand = <<>> THEN <<>>
    ELSE LET m == CHOOSE i \in DOMAIN hand :
                    /\ \A j \in DOMAIN hand : compareCards(hand[i], hand[j]) <= 0
                    /\ \A j \in 1..(i-1) : compareCards(hand[j], hand[i]) # 0
         IN <<hand[m]>> \o sortHand([i \in 1..(Len(hand) - 1) |->
                                        IF i < m THEN hand[i] ELSE hand[i + 1]])

dealCardsError(s) ==
    IF s.phase # Dealing THEN "Can only deal when in dealing phase" ELSE "ok"

dealCards_SameRound(s) ==
    LET n == Len(s.deck)
        dealt == [j \in PlayerIds |-> [i \in 1..HandSize |-> s.deck[n - (4 * (i - 1))]]]
        players == [j \in PlayerIds |-> [s.players[j] EXCEPT !.hand = sortHand(dealt[j])]]
        holders == {i \in PlayerIds : some(players[i].hand, isTwoOfClubs)}
        starterIndex == IF holders = {} THEN 0
                        ELSE CHOOSE i \in holders : \A k \in holders : i <= k
        nextPhase == IF s.passDirection = None THEN Playing ELSE Passing
    IN [s EXCEPT !.players = players,
                 !.currentPlayerIndex = starterIndex,
                 !.deck = SubSeq(s.deck, 1, n - 4 * HandSize),
                 !.phase = nextPhase]

dealCards_AlwaysPassing(s) ==
    LET n == Len(s.deck)
        dealt == [j \in PlayerIds |-> [i \in 1..HandSize |-> s.deck[n - (4 * (i - 1) + j)]]]
        players == [j \in PlayerIds |-> [s.players[j] EXCEPT !.hand = sortHand(dealt[j])]]
        holders == {i \in PlayerIds : some(players[i].hand, isTwoOfClubs)}
        starterIndex == IF holders = {} THEN 0
                        ELSE CHOOSE i \in holders : \A k \in holders : i <= k
    IN [s EXCEPT !.players = players,
                 !.currentPlayerIndex = starterIndex,
                 !.deck = SubSeq(s.deck, 1, n - 4 * HandSize),
                 !.phase = Passing]

\* the n-th deck.pop() (n from 0) takes deck[Len - n]; round i gives seat j pop 4i+j
dealCards(s) ==
    LET n == Len(s.deck)
        dealt == [j \in PlayerIds |-> [i \in 1..HandSize |-> s.deck[n - (4 * (i - 1) + j)]]]
        players == [j \in PlayerIds |-> [s.players[j] EXCEPT !.hand = sortHand(dealt[j])]]
        holders == {i \in PlayerIds : some(players[i].hand, isTwoOfClubs)}
        starterIndex == IF holders = {} THEN 0
                        ELSE CHOOSE i \in holders : \A k \in holders : i <= k
        nextPhase == IF s.passDirection = None THEN Playing ELSE Passing
    IN [s EXCEPT !.players = players,
                 !.currentPlayerIndex = starterIndex,
                 !.deck = SubSeq(s.deck, 1, n - 4 * HandSize),
                 !.phase = nextPhase]

selectCardToPassError_NoLimit(s, playerId, cardId) ==
    IF s.phase # Passing THEN "Can only select cards during passing phase"
    ELSE IF playerId \notin PlayerIds THEN "Player not found"
    ELSE IF ~some(s.players[playerId].hand, LAMBDA c : c = cardId) THEN "Card not in player hand"
    ELSE "ok"

selectCardToPassError(s, playerId, cardId) ==
    IF s.phase # Passing THEN "Can only select cards during passing phase"
    ELSE IF playerId \notin PlayerIds THEN "Player not found"
    ELSE IF ~some(s.players[playerId].hand, LAMBDA c : c = cardId) THEN "Card not in player hand"
    ELSE IF cardId \notin s.players[playerId].selectedCards
            /\ Cardinality(s.players[playerId].selectedCards) >= 3
         THEN "Can only select 3 cards to pass"
    ELSE "ok"

\* selectedCards is an array of ids in the source; includes/filter/append keep
\* it free of repeats and its order is erased by the sort in executePass, so
\* it is held as the set of its ids.
selectCardToPass(s, playerId, cardId) ==
    LET player == s.players[playerId]
        alreadySelected == cardId \in player.selectedCards
        selectedCards == IF alreadySelected
                         THEN player.selectedCards \ {cardId}
                         ELSE player.selectedCards \cup {cardId}
    IN [s EXCEPT !.players[playerId] =
            [player EXCEPT !.selectedCards = selectedCards,
                           !.isReady = (Cardinality(selectedCards) = 3)]]

executePassError_NoReadyCheck(s) ==
    IF s.phase # Passing THEN "Can only pass during passing phase" ELSE "ok"

executePassError(s) ==
    IF s.phase # Passing THEN "Can only pass during passing phase"
    ELSE IF ~(\A p \in PlayerIds : s.players[p].isReady) THEN "Not all players are ready to pass"
    ELSE "ok"

getSender_AlwaysLeft(s, index) == (index + 3) % 4

getSender(s, index) ==
    CASE s.passDirection = Left -> (index + 3) % 4
      [] s.passDirection = Right -> (index + 1) % 4
      [] s.passDirection = Across -> (index + 2) % 4
      [] OTHER -> index

executePass(s) ==
    LET passedCards == [p \in PlayerIds |->
            filter(s.players[p].hand, LAMBDA c : c \in s.players[p].selectedCards)]
        updatedPlayers == [index \in PlayerIds |->
            LET player == s.players[index]
                kept == filter(player.hand, LAMBDA c : c \notin player.selectedCards)
                receivedCards == passedCards[getSender(s, index)]
            IN [player EXCEPT !.hand = sortHand(kept \o receivedCards),
                              !.selectedCards = {},
                              !.isReady = FALSE]]
    IN [s EXCEPT !.players = updatedPlayers, !.phase = Playing]

playCardError_NoPhaseCheck(s, playerId, cardId) ==
    IF s.currentPlayerIndex # playerId THEN "Not your turn"
    ELSE IF ~some(s.players[s.currentPlayerIndex].hand, LAMBDA c : c = cardId) THEN "Card not in hand"
    ELSE IF ~isValidPlay(s, playerId, cardId) THEN "Invalid play"
    ELSE "ok"

playCardError_NoValidation(s, playerId, cardId) ==
    IF s.phase # Playing THEN "Can only play cards during playing phase"
    ELSE IF s.currentPlayerIndex # playerId THEN "Not your turn"
    ELSE IF ~some(s.players[s.currentPlayerIndex].hand, LAMBDA c : c = cardId) THEN "Card not in hand"
    ELSE "ok"

playCardError(s, playerId, cardId) ==
    IF s.phase # Playing THEN "Can only play cards during playing phase"
    ELSE IF s.currentPlayerIndex # playerId THEN "Not your turn"
    ELSE IF ~some(s.players[s.currentPlayerIndex].hand, LAMBDA c : c = cardId) THEN "Card not in hand"
    ELSE IF ~isValidPlay(s, playerId, cardId) THEN "Invalid play"
    ELSE "ok"

playCard_SkipsSeat(s, playerId, cardId) ==
    LET currentPlayer == s.players[s.currentPlayerIndex]
        currentTrick == [s.currentTrick EXCEPT
            !.cards = Append(s.currentTrick.cards, [playerId |-> playerId, card |-> cardId]),
            !.leadingSuit = IF s.currentTrick.leadingSuit # NoSuit
                            THEN s.currentTrick.leadingSuit ELSE Suit(cardId)]
    IN [s EXCEPT !.players[s.currentPlayerIndex] =
                     [currentPlayer EXCEPT !.hand = filter(currentPlayer.hand, LAMBDA c : c # cardId)],
                 !.currentTrick = currentTrick,
                 !.currentPlayerIndex = (s.currentPlayerIndex + 2) % 4,
                 !.heartsBroken = s.heartsBroken \/ trickContainsHearts(currentTrick)]

playCard_AlwaysLeads(s, playerId, cardId) ==
    LET currentPlayer == s.players[s.currentPlayerIndex]
        currentTrick == [s.currentTrick EXCEPT
            !.cards = Append(s.currentTrick.cards, [playerId |-> playerId, card |-> cardId]),
            !.leadingSuit = Suit(cardId)]
    IN [s EXCEPT !.players[s.currentPlayerIndex] =
                     [currentPlayer EXCEPT !.hand = filter(currentPlayer.hand, LAMBDA c : c # cardId)],
                 !.currentTrick = currentTrick,
                 !.currentPlayerIndex = (s.currentPlayerIndex + 1) % 4,
                 !.heartsBroken = s.heartsBroken \/ trickContainsHearts(currentTrick)]

playCard(s, playerId, cardId) ==
    LET currentPlayer == s.players[s.currentPlayerIndex]
        currentTrick == [s.currentTrick EXCEPT
            !.cards = Append(s.currentTrick.cards, [playerId |-> playerId, card |-> cardId]),
            !.leadingSuit = IF s.currentTrick.leadingSuit # NoSuit
                            THEN s.currentTrick.leadingSuit ELSE Suit(cardId)]
    IN [s EXCEPT !.players[s.currentPlayerIndex] =
                     [currentPlayer EXCEPT !.hand = filter(currentPlayer.hand, LAMBDA c : c # cardId)],
                 !.currentTrick = currentTrick,
                 !.currentPlayerIndex = (s.currentPlayerIndex + 1) % 4,
                 !.heartsBroken = s.heartsBroken \/ trickContainsHearts(currentTrick)]

completeTrickError(s) ==
    IF Len(s.currentTrick.cards) # 4 THEN "Trick is not complete"
    ELSE IF determineTrickWinner(s.currentTrick) = Null THEN "Could not determine trick winner"
    ELSE "ok"

completeTrick_NoWinnerId(s) ==
    LET winnerId == determineTrickWinner(s.currentTrick)
        completedTrick == s.currentTrick
        trickCards == [i \in DOMAIN completedTrick.cards |-> completedTrick.cards[i].card]
        updatedPlayers == [p \in PlayerIds |->
            IF p = winnerId
            THEN [s.players[p] EXCEPT !.tricksTaken = Append(s.players[p].tricksTaken, trickCards)]
            ELSE s.players[p]]
        completedTricks == Append(s.completedTricks, completedTrick)
        handOver == Len(completedTricks) = HandSize
    IN IF handOver
       THEN applyScores([s EXCEPT !.players = updatedPlayers,
                                  !.completedTricks = completedTricks])
       ELSE [s EXCEPT !.players = updatedPlayers,
                      !.currentPlayerIndex = winnerId,
                      !.currentTrick = EmptyTrick,
                      !.completedTricks = completedTricks,
                      !.firstTrick = FALSE]

completeTrick_KeepFirstTrick(s) ==
    LET winnerId == determineTrickWinner(s.currentTrick)
        completedTrick == [s.currentTrick EXCEPT !.winnerId = winnerId]
        trickCards == [i \in DOMAIN completedTrick.cards |-> completedTrick.cards[i].card]
        updatedPlayers == [p \in PlayerIds |->
            IF p = winnerId
            THEN [s.players[p] EXCEPT !.tricksTaken = Append(s.players[p].tricksTaken, trickCards)]
            ELSE s.players[p]]
        completedTricks == Append(s.completedTricks, completedTrick)
        handOver == Len(completedTricks) = HandSize
    IN IF handOver
       THEN applyScores([s EXCEPT !.players = updatedPlayers,
                                  !.completedTricks = completedTricks])
       ELSE [s EXCEPT !.players = updatedPlayers,
                      !.currentPlayerIndex = winnerId,
                      !.currentTrick = EmptyTrick,
                      !.completedTricks = completedTricks]

completeTrick(s) ==
    LET winnerId == determineTrickWinner(s.currentTrick)
        completedTrick == [s.currentTrick EXCEPT !.winnerId = winnerId]
        trickCards == [i \in DOMAIN completedTrick.cards |-> completedTrick.cards[i].card]
        updatedPlayers == [p \in PlayerIds |->
            IF p = winnerId
            THEN [s.players[p] EXCEPT !.tricksTaken = Append(s.players[p].tricksTaken, trickCards)]
            ELSE s.players[p]]
        completedTricks == Append(s.completedTricks, completedTrick)
        handOver == Len(completedTricks) = HandSize
    IN IF handOver
       THEN applyScores([s EXCEPT !.players = updatedPlayers,
                                  !.completedTricks = completedTricks])
       ELSE [s EXCEPT !.players = updatedPlayers,
                      !.currentPlayerIndex = winnerId,
                      !.currentTrick = EmptyTrick,
                      !.completedTricks = completedTricks,
                      !.firstTrick = FALSE]

startNewHandError_NoPhaseCheck(s) == "ok"

startNewHandError_AfterGameOver(s) ==
    IF s.phase \notin {HandComplete, GameOver}
    THEN "Can only start new hand when current hand is complete" ELSE "ok"

startNewHandError(s) ==
    IF s.phase # HandComplete THEN "Can only start new hand when current hand is complete" ELSE "ok"

startNewHand_KeepTricksTaken(s, deck) ==
    LET handNumber == s.handNumber + 1
        players == [p \in PlayerIds |->
            [s.players[p] EXCEPT !.hand = <<>>, !.handScore = 0,
                                 !.selectedCards = {}, !.isReady = FALSE]]
    IN [phase |-> Dealing,
        players |-> players,
        currentPlayerIndex |-> 0,
        currentTrick |-> EmptyTrick,
        completedTricks |-> <<>>,
        passDirection |-> getPassDirection(handNumber),
        heartsBroken |-> FALSE,
        firstTrick |-> TRUE,
        handNumber |-> handNumber,
        deck |-> deck]

startNewHand(s, deck) ==
    LET handNumber == s.handNumber + 1
        players == [p \in PlayerIds |->
            [s.players[p] EXCEPT !.hand = <<>>, !.tricksTaken = <<>>, !.handScore = 0,
                                 !.selectedCards = {}, !.isReady = FALSE]]
    IN [phase |-> Dealing,
        players |-> players,
        currentPlayerIndex |-> 0,
        currentTrick |-> EmptyTrick,
        completedTricks |-> <<>>,
        passDirection |-> getPassDirection(handNumber),
        heartsBroken |-> FALSE,
        firstTrick |-> TRUE,
        handNumber |-> handNumber,
        deck |-> deck]

\* ------------------------------------------------------------------- AI
getRankValue(rank) == rank

\* Array.prototype.find: the first element that satisfies P, or nothing
find(s, P(_)) ==
    IF some(s, P)
    THEN s[CHOOSE i \in DOMAIN s : P(s[i]) /\ \A j \in 1..(i - 1) : ~P(s[j])]
    ELSE Null

\* Array.prototype.sort with a consistent comparator: stable, an element goes
\* after those the comparator puts before it and after its equals to its left
sort(s, cmp(_, _)) ==
    LET before(i) == {j \in DOMAIN s \ {i} :
                        \/ cmp(s[j], s[i]) < 0
                        \/ (cmp(s[j], s[i]) = 0 /\ j < i)}
    IN [k \in DOMAIN s |-> s[CHOOSE i \in DOMAIN s : Cardinality(before(i)) = k - 1]]

\* Array.prototype.sort with the comparator () => Math.random() - 0.5, which is
\* not consistent: the order that comes out is any order of the elements
shuffled(s) ==
    {[k \in DOMAIN s |-> s[f[k]]] :
        f \in {g \in [DOMAIN s -> DOMAIN s] : \A i, j \in DOMAIN s : i # j => g[i] # g[j]}}

\* Array.prototype.slice(0, 3)
slice3(s) == SubSeq(s, 1, IF Len(s) < 3 THEN Len(s) ELSE 3)

compareDanger_RankOnly(a, b) ==
    IF Rank(a) # Rank(b) THEN getRankValue(Rank(b)) - getRankValue(Rank(a))
    ELSE IF Suit(a) = Hearts /\ Suit(b) # Hearts THEN -1
    ELSE IF Suit(a) # Hearts /\ Suit(b) = Hearts THEN 1
    ELSE 0

\* the comparator of SimpleAI.selectCardsToPass: negative iff a is passed first
compareDanger(a, b) ==
    IF Rank(a) = 12 /\ Suit(a) = Spades THEN -1
    ELSE IF Rank(b) = 12 /\ Suit(b) = Spades THEN 1
    ELSE LET aIsHighHeart == Suit(a) = Hearts /\ getRankValue(Rank(a)) >= 12
             bIsHighHeart == Suit(b) = Hearts /\ getRankValue(Rank(b)) >= 12
         IN IF aIsHighHeart /\ ~bIsHighHeart THEN -1
            ELSE IF ~aIsHighHeart /\ bIsHighHeart THEN 1
            ELSE IF Rank(a) # Rank(b) THEN getRankValue(Rank(b)) - getRankValue(Rank(a))
            ELSE IF Suit(a) = Hearts /\ Suit(b) # Hearts THEN -1
            ELSE IF Suit(a) # Hearts /\ Suit(b) = Hearts THEN 1
            ELSE 0

SimpleAI_selectCardsToPass_Two(hand) ==
    SubSeq(sort(hand, compareDanger), 1, IF Len(hand) < 2 THEN Len(hand) ELSE 2)

SimpleAI_selectCardsToPass(hand) ==
    LET sortedByDanger == sort(hand, compareDanger)
    IN slice3(sortedByDanger)

\* the comparator of the low-to-high sort: the Queen of Spades goes last
compareLowToHigh(a, b) ==
    IF Rank(a) = 12 /\ Suit(a) = Spades THEN 1
    ELSE IF Rank(b) = 12 /\ Suit(b) = Spades THEN -1
    ELSE getRankValue(Rank(a)) - getRankValue(Rank(b))

SimpleAI_selectCardToPlayError(s, playerId) ==
    IF Len(getValidPlays(s, playerId)) = 0 THEN "No valid plays available" ELSE "ok"

SimpleAI_selectCardToPlay_FirstInHand(s, playerId) == s.players[playerId].hand[1]

SimpleAI_selectCardToPlay(s, playerId) ==
    LET validPlays == getValidPlays(s, playerId)
        currentTrick == s.currentTrick
        isLeading == Len(currentTrick.cards) = 0
        lowSafe == find(validPlays, LAMBDA c : Suit(c) # Hearts /\ Rank(c) = 2)
        safe == find(validPlays, LAMBDA c : Suit(c) # Hearts /\ getRankValue(Rank(c)) <= 5)
        nonHeart == find(validPlays, LAMBDA c : Suit(c) # Hearts)
    IN IF Len(validPlays) = 1 THEN validPlays[1]
       ELSE IF isLeading
       THEN IF lowSafe # Null THEN lowSafe
            ELSE IF safe # Null THEN safe
            ELSE IF nonHeart # Null THEN nonHeart
            ELSE sort(validPlays,
                      LAMBDA a, b : getRankValue(Rank(a)) - getRankValue(Rank(b)))[1]
       ELSE IF trickContainsPoints(currentTrick)
       THEN sort(validPlays, compareLowToHigh)[1]
       ELSE sort(validPlays,
                 LAMBDA a, b : getRankValue(Rank(b)) - getRankValue(Rank(a)))[1]

\* getValidPlays returns the hand array of the state itself, not a copy of it
getValidPlaysIsHand(s, playerId) ==
    /\ playerId \in PlayerIds
    /\ LET hand == s.players[playerId].hand
           currentTrick == s.currentTrick
           nonHearts == filter(hand, LAMBDA c : Suit(c) # Hearts)
       IN IF Len(currentTrick.cards) = 0
          THEN ~s.firstTrick /\ ~(~canLeadHearts(s, hand) /\ Len(nonHearts) > 0)
          ELSE ~canFollowSuit(hand, currentTrick.leadingSuit) /\ ~s.firstTrick

SimpleAI_selectCardToPlay_state_HighToLow(s, playerId) ==
    LET validPlays == getValidPlays(s, playerId)
    IN IF /\ Len(validPlays) > 1
          /\ Len(s.currentTrick.cards) = 0
          /\ find(validPlays, LAMBDA c : Suit(c) # Hearts) = Null
          /\ getValidPlaysIsHand(s, playerId)
       THEN [s EXCEPT !.players[playerId].hand =
                sort(validPlays,
                     LAMBDA a, b : getRankValue(Rank(b)) - getRankValue(Rank(a)))]
       ELSE s

\* the state argument as SimpleAI.selectCardToPlay leaves it: the last resort
\* of a lead, validPlays.sort(...), sorts validPlays in place, and validPlays
\* can be the hand of the state
SimpleAI_selectCardToPlay_state(s, playerId) ==
    LET validPlays == getValidPlays(s, playerId)
    IN IF /\ Len(validPlays) > 1
          /\ Len(s.currentTrick.cards) = 0
          /\ find(validPlays, LAMBDA c : Suit(c) # Hearts /\ Rank(c) = 2) = Null
          /\ find(validPlays, LAMBDA c : Suit(c) # Hearts /\ getRankValue(Rank(c)) <= 5) = Null
          /\ find(validPlays, LAMBDA c : Suit(c) # Hearts) = Null
          /\ getValidPlaysIsHand(s, playerId)
       THEN [s EXCEPT !.players[playerId].hand =
                sort(validPlays,
                     LAMBDA a, b : getRankValue(Rank(a)) - getRankValue(Rank(b)))]
       ELSE s

\* what RandomAI.selectCardsToPass can return
RandomAI_selectCardsToPass(hand) == {slice3(s) : s \in shuffled(hand)}

RandomAI_selectCardToPlayError(s, playerId) ==
    IF Len(getValidPlays(s, playerId)) = 0 THEN "No valid plays available" ELSE "ok"

\* what RandomAI.selectCardToPlay can return: Math.random() is in [0, 1)
RandomAI_selectCardToPlay(s, playerId) ==
    LET validPlays == getValidPlays(s, playerId)
    IN {validPlays[randomIndex + 1] : randomIndex \in 0..(Len(validPlays) - 1)}

\* ---------------------------------------------------------------- actions
\* A call that throws yields no new snapshot: every action is guarded by its
\* function's error being "ok".
Init == \E deck \in createHeartsDeck : state = createGame(deck)

DealCards ==
    /\ dealCardsError(state) = "ok"
    /\ state' = dealCards(state)

SelectCardToPass ==
    \E playerId \in PlayerIds, cardId \in AllCards :
        /\ selectCardToPassError(state, playerId, cardId) = "ok"
        /\ state' = selectCardToPass(state, playerId, cardId)

ExecutePass ==
    /\ executePassError(state) = "ok"
    /\ state' = executePass(state)

PlayCard ==
    \E playerId \in PlayerIds, cardId \in AllCards :
        /\ Len(state.currentTrick.cards) < MaxTrickCards
        /\ playCardError(state, playerId, cardId) = "ok"
        /\ state' = playCard(state, playerId, cardId)

CompleteTrick ==
    /\ completeTrickError(state) = "ok"
    /\ state' = completeTrick(state)

Next ==
    \/ DealCards
    \/ SelectCardToPass
    \/ ExecutePass
    \/ PlayCard
    \/ CompleteTrick

Spec == Init /\ [][Next]_vars

\* The driver of the claims about progress: players only add selections until
\* all are ready, a card is played only into a trick of fewer than 4 cards, and
\* a full trick is completed while the hand is being played.
canDriverSelect(playerId, cardId) ==
    /\ selectCardToPassError(state, playerId, cardId) = "ok"
    /\ cardId \notin state.players[playerId].selectedCards

canDriverPlay(cardId) ==
    /\ Len(state.currentTrick.cards) < 4
    /\ cardId \in Range(getValidPlays(state, state.currentPlayerIndex))
    /\ playCardError(state, state.currentPlayerIndex, cardId) = "ok"

canDriverCompleteTrick ==
    /\ state.phase = Playing
    /\ completeTrickError(state) = "ok"

DriverSelect ==
    \E playerId \in PlayerIds, cardId \in AllCards :
        /\ canDriverSelect(playerId, cardId)
        /\ state' = selectCardToPass(state, playerId, cardId)

DriverPlay ==
    \E cardId \in AllCards :
        /\ canDriverPlay(cardId)
        /\ state' = playCard(state, state.currentPlayerIndex, cardId)

DriverCompleteTrick ==
    /\ canDriverCompleteTrick
    /\ state' = completeTrick(state)

\* the driver has a step to take: the disjunction of the guards of DriverNext
driverCanStep ==
    \/ dealCardsError(state) = "ok"
    \/ \E playerId \in PlayerIds, cardId \in AllCards : canDriverSelect(playerId, cardId)
    \/ executePassError(state) = "ok"
    \/ \E cardId \in AllCards : canDriverPlay(cardId)
    \/ canDriverCompleteTrick

DriverNext ==
    \/ DealCards
    \/ DriverSelect
    \/ ExecutePass
    \/ DriverPlay
    \/ DriverCompleteTrick

DriverSpec == Init /\ [][DriverNext]_vars /\ WF_vars(DriverNext)

\* --------------------------------------------------- the game across hands
StartNewHand ==
    \E deck \in createHeartsDeck :
        /\ startNewHandError(state) = "ok"
        /\ state' = startNewHand(state, deck)

\* Games in progress at the start of a hand: the hand number and the
\* cumulative scores carried into it.  The first is a new game; the others
\* are games whose scores are sums of earlier hands of MoonPoints points each
\* (3 hands: 51 points; 7 hands: 119 points, one player having taken the Queen
\* of Spades and 3 Hearts in six of them), at a hand that is played without
\* passing.
CarriedGames ==
    { [handNumber |-> 0, score |-> <<0, 0, 0, 0>>],
      [handNumber |-> 3, score |-> <<20, 11, 14, 6>>],
      [handNumber |-> 7, score |-> <<98, 7, 7, 7>>],
      [handNumber |-> 7, score |-> <<7, 98, 7, 7>>],
      [handNumber |-> 7, score |-> <<7, 7, 98, 7>>],
      [handNumber |-> 7, score |-> <<7, 7, 7, 98>>] }

\* the state startNewHand yields for hand g.handNumber of a game with the
\* scores g.score (createGame's state when it is the first hand)
handStart(deck, g) ==
    [createGame(deck) EXCEPT
        !.players = [p \in PlayerIds |-> [createPlayers[p] EXCEPT !.score = g.score[p + 1]]],
        !.passDirection = getPassDirection(g.handNumber),
        !.handNumber = g.handNumber]

GameStarts == {handStart(deck, g) : deck \in createHeartsDeck, g \in CarriedGames}

GameInit == state \in GameStarts

\* the hand the game is picked up at is dealt; the hands startNewHand opens
\* after it are not followed
GameDealCards ==
    /\ state \in GameStarts
    /\ DealCards

GameNext ==
    \/ GameDealCards
    \/ SelectCardToPass
    \/ ExecutePass
    \/ PlayCard
    \/ CompleteTrick
    \/ StartNewHand

GameSpec == GameInit /\ [][GameNext]_vars

\* ------------------------------------------------------- the end of a game
\* Long games at the start of a hand played without passing: 19 and 23 hands
\* of MoonPoints points each behind them, every score still below 100, the
\* Queen of Spades having gone 6, 6, 6, 1 and 7, 7, 7, 2 times to the four
\* players.  After 23 hands no room for another is left below 100.
LongGames ==
    { [handNumber |-> 19, score |-> <<81, 81, 81, 80>>],
      [handNumber |-> 23, score |-> <<98, 98, 98, 97>>],
      [handNumber |-> 23, score |-> <<99, 99, 94, 99>>] }

LongStarts == {handStart(deck, g) : deck \in createHeartsDeck, g \in LongGames}

LongInit == state \in LongStarts

\* the hand the game is picked up at is dealt; the hands startNewHand opens
\* after it are not followed
LongDealCards ==
    /\ state \in LongStarts
    /\ DealCards

LongNext ==
    \/ LongDealCards
    \/ PlayCard
    \/ CompleteTrick
    \/ StartNewHand

LongGameSpec == LongInit /\ [][LongNext]_vars

\* ------------------------------------------------------- the passing phase
\* Games at the start of each of the three hands that pass (Left, Right,
\* Across): a new game, and games whose scores are those of one and of two
\* hands of MoonPoints points.
PassingGames ==
    { [handNumber |-> 0, score |-> <<0, 0, 0, 0>>],
      [handNumber |-> 1, score |-> <<14, 0, 2, 1>>],
      [handNumber |-> 2, score |-> <<15, 3, 14, 2>>] }

PassInit == state \in {handStart(deck, g) : deck \in createHeartsDeck, g \in PassingGames}

\* the hand up to the exchange: the play that follows is not followed here
PassNext ==
    \/ DealCards
    \/ SelectCardToPass
    \/ ExecutePass

PassSpec == PassInit /\ [][PassNext]_vars

\* ------------------------------------------------ the HeartsContainer driver
\* One hand of the container: the game it creates and deals, the three timers
\* and the click handlers of the human player.  Both AI strategies drive it.
\* handleNewGame puts the container back into a state of AIInit, and the hand
\* handleNewHand opens is not followed.
HUMAN_PLAYER_INDEX == 0

AIInit == \E deck \in createHeartsDeck : state = dealCards(createGame(deck))

aiPlayersNotReady(s) ==
    filter(<<1, 2, 3>>, LAMBDA p : p # HUMAN_PLAYER_INDEX /\ ~s.players[p].isReady)

\* for (const card of cardsToPass) newState = selectCardToPass(newState, id, card.id)
RECURSIVE selectEachError(_, _, _)
selectEachError(s, playerId, cards) ==
    IF cards = <<>> THEN "ok"
    ELSE IF selectCardToPassError(s, playerId, Head(cards)) # "ok"
    THEN selectCardToPassError(s, playerId, Head(cards))
    ELSE selectEachError(selectCardToPass(s, playerId, Head(cards)), playerId, Tail(cards))

RECURSIVE selectEach(_, _, _)
selectEach(s, playerId, cards) ==
    IF cards = <<>> THEN s
    ELSE selectEach(selectCardToPass(s, playerId, Head(cards)), playerId, Tail(cards))

\* for (const player of aiPlayersNotReady): cardsToPass[p] is what the
\* strategy returned for player p
RECURSIVE passingTimerError(_, _, _)
passingTimerError(s, players, cardsToPass) ==
    IF players = <<>> THEN "ok"
    ELSE IF selectEachError(s, Head(players), cardsToPass[Head(players)]) # "ok"
    THEN selectEachError(s, Head(players), cardsToPass[Head(players)])
    ELSE passingTimerError(selectEach(s, Head(players), cardsToPass[Head(players)]),
                           Tail(players), cardsToPass)

RECURSIVE passingTimer(_, _, _)
passingTimer(s, players, cardsToPass) ==
    IF players = <<>> THEN s
    ELSE passingTimer(selectEach(s, Head(players), cardsToPass[Head(players)]),
                      Tail(players), cardsToPass)

SimpleAIPassingTimer ==
    /\ state.phase = Passing
    /\ Len(aiPlayersNotReady(state)) # 0
    /\ LET cardsToPass == [p \in Range(aiPlayersNotReady(state)) |->
                              SimpleAI_selectCardsToPass(state.players[p].hand)]
       IN /\ passingTimerError(state, aiPlayersNotReady(state), cardsToPass) = "ok"
          /\ state' = passingTimer(state, aiPlayersNotReady(state), cardsToPass)

RandomAIPassingTimer ==
    /\ state.phase = Passing
    /\ Len(aiPlayersNotReady(state)) # 0
    /\ \E c1 \in RandomAI_selectCardsToPass(state.players[1].hand),
          c2 \in RandomAI_selectCardsToPass(state.players[2].hand),
          c3 \in RandomAI_selectCardsToPass(state.players[3].hand) :
          LET cardsToPass == [p \in Range(aiPlayersNotReady(state)) |-> <<c1, c2, c3>>[p]]
          IN
          /\ passingTimerError(state, aiPlayersNotReady(state), cardsToPass) = "ok"
          /\ state' = passingTimer(state, aiPlayersNotReady(state), cardsToPass)

SimpleAIPlayingTimer ==
    /\ state.phase = Playing
    /\ state.currentPlayerIndex # HUMAN_PLAYER_INDEX
    /\ Len(state.currentTrick.cards) < MaxTrickCards
    /\ SimpleAI_selectCardToPlayError(state, state.currentPlayerIndex) = "ok"
    /\ LET cardToPlay == SimpleAI_selectCardToPlay(state, state.currentPlayerIndex)
           gameState == SimpleAI_selectCardToPlay_state(state, state.currentPlayerIndex)
       IN /\ playCardError(gameState, state.currentPlayerIndex, cardToPlay) = "ok"
          /\ state' = playCard(gameState, state.currentPlayerIndex, cardToPlay)

RandomAIPlayingTimer ==
    /\ state.phase = Playing
    /\ state.currentPlayerIndex # HUMAN_PLAYER_INDEX
    /\ Len(state.currentTrick.cards) < MaxTrickCards
    /\ RandomAI_selectCardToPlayError(state, state.currentPlayerIndex) = "ok"
    /\ \E cardToPlay \in RandomAI_selectCardToPlay(state, state.currentPlayerIndex) :
          /\ playCardError(state, state.currentPlayerIndex, cardToPlay) = "ok"
          /\ state' = playCard(state, state.currentPlayerIndex, cardToPlay)

CompleteTrickTimer ==
    /\ state.phase = Playing
    /\ Len(state.currentTrick.cards) = 4
    /\ completeTrickError(state) = "ok"
    /\ state' = completeTrick(state)

handleCardSelect ==
    \E cardId \in AllCards :
        /\ state.phase = Passing
        /\ ~state.players[HUMAN_PLAYER_INDEX].isReady
        /\ selectCardToPassError(state, HUMAN_PLAYER_INDEX, cardId) = "ok"
        /\ state' = selectCardToPass(state, HUMAN_PLAYER_INDEX, cardId)

handleConfirmPass ==
    /\ state.phase = Passing
    /\ IF state.passDirection = None
       THEN state' = [state EXCEPT !.phase = Playing]
       ELSE /\ state.players[HUMAN_PLAYER_INDEX].isReady
            /\ every(state.players, LAMBDA p : p.isReady)
            /\ executePassError(state) = "ok"
            /\ state' = executePass(state)

handleCardPlay ==
    \E cardId \in AllCards :
        /\ state.phase = Playing
        /\ state.currentPlayerIndex = HUMAN_PLAYER_INDEX
        /\ Len(state.currentTrick.cards) < MaxTrickCards
        /\ some(state.players[HUMAN_PLAYER_INDEX].hand, LAMBDA c : c = cardId)
        /\ some(getValidPlays(state, HUMAN_PLAYER_INDEX), LAMBDA c : c = cardId)
        /\ playCardError(state, HUMAN_PLAYER_INDEX, cardId) = "ok"
        /\ state' = playCard(state, HUMAN_PLAYER_INDEX, cardId)

AINext ==
    \/ SimpleAIPassingTimer
    \/ RandomAIPassingTimer
    \/ SimpleAIPlayingTimer
    \/ RandomAIPlayingTimer
    \/ CompleteTrickTimer
    \/ handleCardSelect
    \/ handleConfirmPass
    \/ handleCardPlay

AISpec == AIInit /\ [][AINext]_vars

\* ------------------------------------------------------------ the claims
DeckSize == 4 * HandSize

handSet(p) == Range(state.players[p].hand)

trickCards(trick) == [i \in DOMAIN trick.cards |-> trick.cards[i].card]

RECURSIVE flatten(_)
flatten(seqs) == IF seqs = <<>> THEN <<>> ELSE Head(seqs) \o flatten(Tail(seqs))

\* every card of the hand in progress, with repetition: the four hands, the
\* current trick, the completed tricks
cardsInPlay ==
    flatten([p \in 1..4 |-> state.players[p - 1].hand])
      \o trickCards(state.currentTrick)
      \o flatten([i \in DOMAIN state.completedTricks |-> trickCards(state.completedTricks[i])])

noRepeats(seq) == \A i, j \in DOMAIN seq : i # j => seq[i] # seq[j]

inHand == state.phase \in {Passing, Playing, HandComplete, GameOver}

\* a step that puts one more card into the current trick: a playCard
Played == /\ state.phase = Playing
          /\ state'.currentTrick.cards # state.currentTrick.cards
          /\ Len(state'.currentTrick.cards) = Len(state.currentTrick.cards) + 1

playedCard == state'.currentTrick.cards[Len(state'.currentTrick.cards)].card

playedBy == state'.currentTrick.cards[Len(state'.currentTrick.cards)].playerId

\* C1: after dealCards and through the last completeTrick of the hand, the
\* hands, the current trick and the completed tricks together hold each of
\* the deck's cards exactly once.
CardConservation ==
    (inHand /\ Len(state.completedTricks) <= HandSize)
        => (Len(cardsInPlay) = DeckSize /\ noRepeats(cardsInPlay))

\* C2: in phase Playing the player to move always has a legal play.
ValidPlaysNonEmpty ==
    state.phase = Playing
        => Len(getValidPlays(state, state.currentPlayerIndex)) > 0

\* C3: under the fair driver a dealt hand that is being passed or played
\* reaches HandComplete or GameOver.  Every driver step adds a selection,
\* moves a card out of a hand or completes a trick, so a run of the driver is
\* finite and fails to get there exactly when it stops in a Passing or Playing
\* state where the driver has no step.
HandProgress ==
    state.phase \in {Passing, Playing} => driverCanStep

\* C4: the current trick never holds more than 4 cards, nor two cards of one
\* player.
OneCardPerPlayerPerTrick ==
    /\ Len(state.currentTrick.cards) <= 4
    /\ \A i, j \in DOMAIN state.currentTrick.cards :
          i # j => state.currentTrick.cards[i].playerId # state.currentTrick.cards[j].playerId

\* C5: when play of a hand starts (phase Playing, nothing played yet) the
\* player to move holds the Two of Clubs.
TwoOfClubsHolderLeads ==
    (state.phase = Playing /\ state.currentTrick.cards = <<>> /\ state.completedTricks = <<>>)
        => TwoOfClubs \in handSet(state.currentPlayerIndex)

playCardAccepts(playerId, cardId) ==
    /\ state.phase = Playing
    /\ playerId = state.currentPlayerIndex
    /\ cardId \in handSet(playerId)
    /\ cardId \in Range(getValidPlays(state, playerId))

\* C6: playCard succeeds exactly when the phase is Playing, the caller is the
\* player to move, the card is in their hand and it is one of getValidPlays;
\* no card enters the trick otherwise.
PlayCardPrecondition ==
    /\ [](\A playerId \in PlayerIds, cardId \in AllCards :
            (playCardError(state, playerId, cardId) = "ok") <=> playCardAccepts(playerId, cardId))
    /\ [][Played => playCardAccepts(playedBy, playedCard)]_vars

\* C7: a card accepted off the leading suit comes from a hand that held no
\* card of the leading suit.
MustFollowSuit ==
    [][(Played /\ Len(state.currentTrick.cards) > 0
               /\ Suit(playedCard) # state.currentTrick.leadingSuit)
          => \A c \in handSet(state.currentPlayerIndex) :
                Suit(c) # state.currentTrick.leadingSuit]_vars

\* C8: a Hearts card is accepted as a lead while hearts are unbroken only from
\* a hand of nothing but Hearts.
NoHeartsLeadUntilBroken ==
    [][(Played /\ Len(state.currentTrick.cards) = 0
               /\ Suit(playedCard) = Hearts /\ ~state.heartsBroken)
          => \A c \in handSet(state.currentPlayerIndex) : Suit(c) = Hearts]_vars

\* C9: while firstTrick holds, a follower's Hearts card or Queen of Spades is
\* accepted only from a hand with no card of the leading suit and nothing but
\* Hearts and the Queen of Spades.
NoPointsOnFirstTrick ==
    [][(Played /\ Len(state.currentTrick.cards) > 0 /\ state.firstTrick
               /\ (Suit(playedCard) = Hearts \/ playedCard = QueenOfSpades))
          => \A c \in handSet(state.currentPlayerIndex) :
                /\ Suit(c) # state.currentTrick.leadingSuit
                /\ (Suit(c) = Hearts \/ c = QueenOfSpades)]_vars

\* the tricks of the hand in play order, the current one last
tricksOfHand ==
    IF state.currentTrick.cards = <<>> \/ state.phase \in {HandComplete, GameOver}
    THEN state.completedTricks
    ELSE Append(state.completedTricks, state.currentTrick)

\* C10: leading the first trick, a holder of the Two of Clubs may play only
\* it; the first card of every hand is the Two of Clubs and the first trick is
\* led in Clubs.
FirstTrickLead ==
    /\ (state.currentTrick.cards = <<>> /\ state.firstTrick)
          => \A p \in PlayerIds :
                TwoOfClubs \in handSet(p) => getValidPlays(state, p) = <<TwoOfClubs>>
    /\ tricksOfHand # <<>>
          => /\ tricksOfHand[1].cards[1].card = TwoOfClubs
             /\ tricksOfHand[1].leadingSuit = Clubs

\* the tricks of four cards that play has produced: the completed ones and a
\* full current one
completeTricks ==
    Range(state.completedTricks)
      \cup (IF Len(state.currentTrick.cards) = 4 THEN {state.currentTrick} ELSE {})

ofLeadingSuit(trick) ==
    {i \in DOMAIN trick.cards : Suit(trick.cards[i].card) = trick.leadingSuit}

\* C11: for every complete trick that play produces, determineTrickWinner is
\* the player of the highest-ranked card of the leading suit (so never the
\* player of an off-suit card), and that is the winnerId a completed trick
\* records; a trick with no cards or with no leading suit has winner null.
TrickWinner ==
    /\ \A t \in completeTricks :
          \E i \in ofLeadingSuit(t) :
              /\ \A j \in ofLeadingSuit(t) : Rank(t.cards[j].card) <= Rank(t.cards[i].card)
              /\ determineTrickWinner(t) = t.cards[i].playerId
    /\ \A i \in DOMAIN state.completedTricks :
          state.completedTricks[i].winnerId = determineTrickWinner(state.completedTricks[i])
    /\ state.currentTrick.cards = <<>> => determineTrickWinner(state.currentTrick) = Null
    /\ \A t \in completeTricks :
          /\ determineTrickWinner([t EXCEPT !.leadingSuit = NoSuit]) = Null
          /\ determineTrickWinner([t EXCEPT !.cards = <<>>]) = Null

\* the orderings of four entries
Orderings == {f \in [1..4 -> 1..4] : \A i, j \in 1..4 : i # j => f[i] # f[j]}

reordered(trick, f) == [trick EXCEPT !.cards = [i \in 1..4 |-> trick.cards[f[i]]]]

\* C12: for the four (playerId, card) pairs and the leading suit of a full
\* trick, determineTrickWinner gives the same player whatever the order of
\* the pairs in trick.cards.
TrickWinnerOrderInvariant ==
    \A t \in completeTricks :
        \A f \in Orderings :
            determineTrickWinner(reordered(t, f)) = determineTrickWinner(t)

\* a step that appends a trick to completedTricks: a completeTrick
Completed == Len(state'.completedTricks) = Len(state.completedTricks) + 1

\* C13: after every completeTrick, the last of the hand included, the player
\* to move is the winner determineTrickWinner gave for the completed trick.
WinnerLeads ==
    [][Completed => state'.currentPlayerIndex = determineTrickWinner(state.currentTrick)]_vars

\* C14: completeTrick fails unless the current trick holds exactly 4 cards,
\* and every completeTrick, the last of the hand included, leaves the current
\* trick empty: no cards, no leading suit, no winner.
TrickResetAfterComplete ==
    /\ [](Len(state.currentTrick.cards) # 4 => completeTrickError(state) = "Trick is not complete")
    /\ [][Completed => /\ Len(state.currentTrick.cards) = 4
                       /\ state'.currentTrick = EmptyTrick]_vars

\* C15: a hand never has more completed tricks than cards per hand, and the
\* phase is HandComplete or GameOver exactly when it has that many.
HandEndTrigger ==
    /\ Len(state.completedTricks) <= HandSize
    /\ state.phase \in {HandComplete, GameOver} <=> Len(state.completedTricks) = HandSize

\* the completeTrick that ends the hand
HandEnded == Completed /\ Len(state'.completedTricks) = HandSize

\* the points among the cards of the tricks player p has taken in st: one per
\* Hearts card, 13 for the Queen of Spades
pointsTaken(st, p) ==
    LET cards == flatten(st.players[p].tricksTaken)
    IN Cardinality({i \in DOMAIN cards : Suit(cards[i]) = Hearts})
         + 13 * Cardinality({i \in DOMAIN cards : cards[i] = QueenOfSpades})

\* C16: when the last trick of a hand completes and no player has taken all
\* the points, every player's score grows by the points in their own tricks
\* and their handScore is that amount.
NormalScoring ==
    [][(HandEnded /\ \A p \in PlayerIds : pointsTaken(state', p) # MoonPoints)
          => \A p \in PlayerIds :
                /\ state'.players[p].score = state.players[p].score + pointsTaken(state', p)
                /\ state'.players[p].handScore = pointsTaken(state', p)]_vars

\* C17: when the last trick of a hand completes and one player has taken all
\* the points (every Hearts card and the Queen of Spades), that player's score
\* is unchanged with handScore 0 and each other player's score grows by
\* MoonPoints with handScore MoonPoints; no state has two such players.
ShootTheMoon ==
    /\ [][HandEnded =>
            \A m \in PlayerIds :
                pointsTaken(state', m) = MoonPoints =>
                    \A p \in PlayerIds :
                        IF p = m
                        THEN /\ state'.players[p].score = state.players[p].score
                             /\ state'.players[p].handScore = 0
                        ELSE /\ state'.players[p].score = state.players[p].score + MoonPoints
                             /\ state'.players[p].handScore = MoonPoints]_vars
    /\ [](Cardinality({p \in PlayerIds : pointsTaken(state, p) = MoonPoints}) <= 1)

\* C18: the completeTrick that ends a hand yields GameOver if some score is at
\* least 100 after the update and HandComplete otherwise; in every state the
\* phase is GameOver exactly when some score is at least 100.
GameOverThreshold ==
    /\ [][HandEnded =>
            state'.phase = (IF \E p \in PlayerIds : state'.players[p].score >= 100
                            THEN GameOver ELSE HandComplete)]_vars
    /\ [](state.phase = GameOver <=> \E p \in PlayerIds : state.players[p].score >= 100)

\* phase, handNumber and the four scores of t are those of the current state
sameGame(t) ==
    /\ t.phase = state.phase
    /\ t.handNumber = state.handNumber
    /\ \A p \in PlayerIds : t.players[p].score = state.players[p].score

\* C19: once the phase is GameOver no engine call yields a state with another
\* phase, handNumber or score: dealCards, selectCardToPass, executePass,
\* playCard and startNewHand fail, and a completeTrick that is accepted keeps
\* all three.
GameOverTerminal ==
    /\ [][state.phase = GameOver => sameGame(state')]_vars
    /\ [](state.phase = GameOver =>
            /\ dealCardsError(state) # "ok"
            /\ executePassError(state) # "ok"
            /\ startNewHandError(state) # "ok"
            /\ \A playerId \in PlayerIds, cardId \in AllCards :
                  /\ selectCardToPassError(state, playerId, cardId) # "ok"
                  /\ playCardError(state, playerId, cardId) # "ok"
            /\ completeTrickError(state) = "ok" => sameGame(completeTrick(state)))

PhaseEdges ==
    { <<Dealing, Passing>>, <<Dealing, Playing>>, <<Passing, Playing>>,
      <<Playing, HandComplete>>, <<Playing, GameOver>>, <<HandComplete, Dealing>> }

\* the phase of t is the current one or one step along the graph from it
phaseStep(t) == t.phase = state.phase \/ <<state.phase, t.phase>> \in PhaseEdges

\* C20: every engine call that is accepted keeps the phase or moves it along
\* Dealing -> Passing, Dealing -> Playing, Passing -> Playing, Playing ->
\* HandComplete, Playing -> GameOver or HandComplete -> Dealing; dealCards
\* yields Playing when passDirection is None and Passing otherwise.
PhaseGraph ==
    /\ [][phaseStep(state')]_vars
    /\ [](dealCardsError(state) = "ok" =>
            /\ phaseStep(dealCards(state))
            /\ dealCards(state).phase =
                  (IF state.passDirection = None THEN Playing ELSE Passing))
    /\ [](executePassError(state) = "ok" => phaseStep(executePass(state)))
    /\ [](completeTrickError(state) = "ok" => phaseStep(completeTrick(state)))
    /\ [](startNewHandError(state) = "ok" =>
            \A deck \in createHeartsDeck : phaseStep(startNewHand(state, deck)))
    /\ [](\A playerId \in PlayerIds, cardId \in AllCards :
            /\ (selectCardToPassError(state, playerId, cardId) = "ok"
                  => phaseStep(selectCardToPass(state, playerId, cardId)))
            /\ (playCardError(state, playerId, cardId) = "ok"
                  => phaseStep(playCard(state, playerId, cardId))))

\* the pass direction of hand n by the cycle Left, Right, Across, None
directionOf(n) ==
    CASE n % 4 = 0 -> Left
      [] n % 4 = 1 -> Right
      [] n % 4 = 2 -> Across
      [] n % 4 = 3 -> None

\* C21: in every state passDirection is the element of the cycle Left, Right,
\* Across, None at handNumber mod 4, startNewHand yields the direction of the
\* next hand number, and no hand with handNumber mod 4 = 3 is in phase
\* Passing.
PassDirectionCycle ==
    /\ state.passDirection = directionOf(state.handNumber)
    /\ state.phase = Passing => state.handNumber % 4 # 3
    /\ startNewHandError(state) = "ok" =>
          \A deck \in createHeartsDeck :
              startNewHand(state, deck).passDirection = directionOf(state.handNumber + 1)
    /\ \A n \in 0..15 : getPassDirection(n) = directionOf(n)

handSetOf(st, p) == Range(st.players[p].hand)

\* an executePass step
Passed == state.phase = Passing /\ state'.phase = Playing

\* player i's cards go to receiverOf(i) and come from senderOf(i)
receiverOf(i) ==
    CASE state.passDirection = Left -> (i + 1) % 4
      [] state.passDirection = Right -> (i + 3) % 4
      [] state.passDirection = Across -> (i + 2) % 4

senderOf(i) ==
    CASE state.passDirection = Left -> (i + 3) % 4
      [] state.passDirection = Right -> (i + 1) % 4
      [] state.passDirection = Across -> (i + 2) % 4

\* C22: executePass puts the 3 cards each player selected before the pass
\* into the hand of the player on their left (Left), right (Right) or across
\* (Across); each new hand is the old hand without the player's own selection
\* plus the selection of their sender, and has as many cards as before.
PassExchange ==
    [][Passed =>
        \A i \in PlayerIds :
            /\ Cardinality(state.players[i].selectedCards) = 3
            /\ state.players[i].selectedCards \subseteq handSetOf(state', receiverOf(i))
            /\ handSetOf(state', i) =
                  (handSetOf(state, i) \ state.players[i].selectedCards)
                     \cup state.players[senderOf(i)].selectedCards
            /\ Len(state'.players[i].hand) = HandSize
            /\ noRepeats(state'.players[i].hand)]_vars

\* C23: executePass is accepted exactly when the phase is Passing and all
\* four players are ready; after it every selectedCards is empty, every
\* isReady is false and the phase is Playing.
ExecutePassPrecondition ==
    /\ [](executePassError(state) = "ok"
            <=> (state.phase = Passing /\ \A p \in PlayerIds : state.players[p].isReady))
    /\ [][Passed =>
            /\ \A p \in PlayerIds :
                  /\ state.players[p].isReady
                  /\ Cardinality(state.players[p].selectedCards) = 3
                  /\ state'.players[p].selectedCards = {}
                  /\ ~state'.players[p].isReady
            /\ state'.phase = Playing]_vars

\* C24: every player's selectedCards holds at most 3 ids, all of cards of
\* their own hand, and isReady holds exactly when there are 3; on a card of
\* the player's hand in phase Passing, selectCardToPass removes the id when it
\* is selected, adds it when it is not, and fails when that would be a 4th
\* selection.
SelectionInvariant ==
    /\ \A p \in PlayerIds :
          /\ Cardinality(state.players[p].selectedCards) <= 3
          /\ state.players[p].selectedCards \subseteq handSet(p)
          /\ state.players[p].isReady <=> Cardinality(state.players[p].selectedCards) = 3
    /\ state.phase = Passing =>
          \A p \in PlayerIds :
              \A c \in handSet(p) :
                  LET selected == state.players[p].selectedCards
                      error == selectCardToPassError(state, p, c)
                      after == selectCardToPass(state, p, c).players[p]
                  IN IF c \in selected
                     THEN /\ error = "ok"
                          /\ after.selectedCards = selected \ {c}
                          /\ ~after.isReady
                     ELSE IF Cardinality(selected) = 3
                     THEN error = "Can only select 3 cards to pass"
                     ELSE /\ error = "ok"
                          /\ after.selectedCards = selected \cup {c}
                          /\ after.isReady <=> Cardinality(selected) = 2

\* the cards played so far in the hand
playedInHand ==
    Range(trickCards(state.currentTrick))
      \cup UNION {Range(trickCards(state.completedTricks[i])) : i \in DOMAIN state.completedTricks}

\* C25: heartsBroken is false when a hand starts, is true in a state exactly
\* when a Hearts card has been played in the hand, is set by the playCard
\* that plays a Hearts card and by no other (not by the Queen of Spades), and
\* goes back to false only by startNewHand.
HeartsBroken ==
    /\ [](state.phase = Dealing => ~state.heartsBroken)
    /\ [](state.heartsBroken <=> \E c \in playedInHand : Suit(c) = Hearts)
    /\ [][Played => (state'.heartsBroken <=> (state.heartsBroken \/ Suit(playedCard) = Hearts))]_vars
    /\ [][(state.heartsBroken /\ ~state'.heartsBroken)
            => (state.phase = HandComplete /\ state'.phase = Dealing
                  /\ state'.handNumber = state.handNumber + 1)]_vars

\* C26: firstTrick is true exactly while the hand has no completed trick:
\* from the start of the hand to its first completeTrick, and again from
\* startNewHand.
FirstTrickFlag ==
    state.firstTrick <=> state.completedTricks = <<>>

\* a startNewHand step
NewHand == state.phase = HandComplete /\ state'.phase = Dealing

\* C27: startNewHand is accepted exactly in phase HandComplete; it adds 1 to
\* handNumber and yields phase Dealing with every hand, tricksTaken and
\* selectedCards empty, every handScore 0 and isReady false, currentTrick and
\* completedTricks empty, heartsBroken false, firstTrick true and a deck of
\* all the cards, and keeps every player's score.
StartNewHandFrame ==
    /\ [](startNewHandError(state) = "ok" <=> state.phase = HandComplete)
    /\ [][NewHand =>
            /\ state'.handNumber = state.handNumber + 1
            /\ \A p \in PlayerIds :
                  /\ state'.players[p].hand = <<>>
                  /\ state'.players[p].tricksTaken = <<>>
                  /\ state'.players[p].selectedCards = {}
                  /\ state'.players[p].handScore = 0
                  /\ ~state'.players[p].isReady
                  /\ state'.players[p].score = state.players[p].score
            /\ state'.currentTrick = EmptyTrick
            /\ state'.completedTricks = <<>>
            /\ ~state'.heartsBroken
            /\ state'.firstTrick
            /\ Len(state'.deck) = DeckSize
            /\ Range(state'.deck) = AllCards]_vars

\* t is a deal of the deck of the current state: HandSize cards for each
\* player, no card in two hands, the hands together the deck, no deck left
isDealOf(t) ==
    /\ \A p \in PlayerIds : Len(t.players[p].hand) = HandSize
    /\ \A p, q \in PlayerIds : p # q => handSetOf(t, p) \cap handSetOf(t, q) = {}
    /\ UNION {handSetOf(t, p) : p \in PlayerIds} = Range(state.deck)
    /\ t.deck = <<>>

\* C28: dealCards from phase Dealing, with the whole deck undealt, gives
\* every player HandSize cards, the four hands disjoint and together exactly
\* the deck, and leaves the deck empty.
DealAll ==
    /\ [](state.phase = Dealing =>
            /\ dealCardsError(state) = "ok"
            /\ Len(state.deck) = DeckSize
            /\ Cardinality(Range(state.deck)) = DeckSize
            /\ isDealOf(dealCards(state)))
    /\ [][state.phase = Dealing => isDealOf(state')]_vars

\* C29: in any state and for any player, when getValidPlays is not empty the
\* card SimpleAI.selectCardToPlay returns, and every card RandomAI.selectCardToPlay
\* can return, is one of getValidPlays; when it is empty both fail.
AIPlaysLegal ==
    \A p \in PlayerIds :
        LET validPlays == Range(getValidPlays(state, p))
        IN IF validPlays # {}
           THEN /\ SimpleAI_selectCardToPlayError(state, p) = "ok"
                /\ SimpleAI_selectCardToPlay(state, p) \in validPlays
                /\ RandomAI_selectCardToPlayError(state, p) = "ok"
                /\ RandomAI_selectCardToPlay(state, p) # {}
                /\ RandomAI_selectCardToPlay(state, p) \subseteq validPlays
           ELSE /\ SimpleAI_selectCardToPlayError(state, p) # "ok"
                /\ RandomAI_selectCardToPlayError(state, p) # "ok"

\* C30: in the passing phase every hand is whole, and what SimpleAI and
\* RandomAI select from it is 3 different cards of the hand; fed one by one to
\* selectCardToPass for a player with nothing selected they leave the player
\* ready, and so the passing timer leaves every AI player ready.
AIPassesWellFormed ==
    state.phase = Passing =>
        \A p \in PlayerIds :
            LET player == state.players[p]
                passes == {SimpleAI_selectCardsToPass(player.hand)}
                              \cup RandomAI_selectCardsToPass(player.hand)
            IN /\ Len(player.hand) = HandSize
               /\ \A cards \in passes :
                    /\ Len(cards) = 3
                    /\ noRepeats(cards)
                    /\ Range(cards) \subseteq Range(player.hand)
                    /\ player.selectedCards = {} =>
                          /\ selectEachError(state, p, cards) = "ok"
                          /\ selectEach(state, p, cards).players[p].isReady
                          /\ selectEach(state, p, cards).players[p].selectedCards = Range(cards)
               /\ p # HUMAN_PLAYER_INDEX =>
                    \/ ~player.isReady /\ player.selectedCards = {}
                    \/ /\ player.isReady
                       /\ Cardinality(player.selectedCards) = 3
                       /\ player.selectedCards \subseteq Range(player.hand)

\* C31: dealCards outside Dealing, selectCardToPass and executePass outside
\* Passing, playCard outside Playing and startNewHand outside HandComplete
\* throw, whatever the player and the card, so that the call gives no state.
PhaseGuards ==
    /\ state.phase # Dealing => dealCardsError(state) # "ok"
    /\ state.phase # Passing =>
          /\ executePassError(state) # "ok"
          /\ \A playerId \in PlayerIds, cardId \in AllCards :
                selectCardToPassError(state, playerId, cardId) # "ok"
    /\ state.phase # Playing =>
          \A playerId \in PlayerIds, cardId \in AllCards :
              playCardError(state, playerId, cardId) # "ok"
    /\ state.phase # HandComplete => startNewHandError(state) # "ok"

\* the only call that writes into what it is given is SimpleAI.selectCardToPlay
\* on a lead without a legal non-Hearts card
sortsInPlace(s, p) ==
    /\ Len(getValidPlays(s, p)) > 1
    /\ Len(s.currentTrick.cards) = 0
    /\ \A c \in Range(getValidPlays(s, p)) : Suit(c) = Hearts

\* C32: the state handed to an AI query is afterwards what it was before, for
\* every player: the in-place sort of SimpleAI.selectCardToPlay, the one write
\* into an argument among the engine transitions and AI queries, finds the
\* hand it sorts already in that order.
NoInputMutation ==
    \A p \in PlayerIds :
        /\ SimpleAI_selectCardToPlay_state(state, p) = state
        /\ sortsInPlace(state, p) =>
              /\ getValidPlaysIsHand(state, p)
              /\ getValidPlays(state, p) = state.players[p].hand

\* C33: in the container a Playing state whose trick holds 4 cards is left
\* only by completeTrick: no step, of a timer or of a click, adds a card to it.
DriverCompletesFullTricks ==
    [][(state.phase = Playing /\ Len(state.currentTrick.cards) = 4)
          => (completeTrickError(state) = "ok" /\ state' = completeTrick(state))]_vars

\* C34: leading with several legal cards, SimpleAI.selectCardToPlay returns a
\* legal non-Hearts card of the lowest rank among them when there is one,
\* and otherwise a legal card of the lowest rank.
SimpleAILead ==
    \A p \in PlayerIds :
        LET validPlays == Range(getValidPlays(state, p))
            nonHearts == {c \in validPlays : Suit(c) # Hearts}
            cardToPlay == SimpleAI_selectCardToPlay(state, p)
        IN (Len(state.currentTrick.cards) = 0 /\ Cardinality(validPlays) > 1) =>
              IF nonHearts # {}
              THEN /\ cardToPlay \in nonHearts
                   /\ \A c \in nonHearts : Rank(cardToPlay) <= Rank(c)
              ELSE /\ cardToPlay \in validPlays
                   /\ \A c \in validPlays : Rank(cardToPlay) <= Rank(c)

\* the danger ordering in words: the Queen of Spades, then the Hearts from
\* the Queen up, then the rest
dangerClass(c) ==
    IF c = QueenOfSpades THEN 0
    ELSE IF Suit(c) = Hearts /\ Rank(c) >= 12 THEN 1
    ELSE 2

\* x does not come after y in the danger ordering
notAfter(x, y) ==
    \/ dangerClass(x) < dangerClass(y)
    \/ /\ dangerClass(x) = dangerClass(y)
       /\ \/ dangerClass(x) < 2
          \/ Rank(x) > Rank(y)
          \/ Rank(x) = Rank(y) /\ (Suit(x) = Hearts \/ Suit(y) # Hearts)

\* C35: of a hand of 3 cards or more SimpleAI.selectCardsToPass returns 3
\* cards, in the danger ordering, none of which comes after a card it leaves
\* in the hand; the Queen of Spades, when held, is the first of them.
SimpleAIPass ==
    \A p \in PlayerIds :
        LET hand == state.players[p].hand
            cardsToPass == SimpleAI_selectCardsToPass(hand)
        IN Len(hand) >= 3 =>
              /\ Len(cardsToPass) = 3
              /\ Range(cardsToPass) \subseteq Range(hand)
              /\ \A i, j \in 1..3 : i < j => notAfter(cardsToPass[i], cardsToPass[j])
              /\ \A x \in Range(cardsToPass), y \in Range(hand) \ Range(cardsToPass) :
                    notAfter(x, y)
              /\ QueenOfSpades \in Range(hand) => cardsToPass[1] = QueenOfSpades

\* a sequence without the element x, the order of the others kept
without(seq, x) == SelectSeq(seq, LAMBDA c : c # x)

\* C36: an accepted playCard takes the played card, and nothing else, out of
\* the hand of the player to move, appends it with the player to currentTrick,
\* makes its suit the leading suit only when the trick was empty, and moves
\* the turn one seat on; phase, the other hands, tricksTaken, scores,
\* selections, completedTricks, firstTrick, passDirection, handNumber and deck
\* stay.
PlayCardFrame ==
    \A playerId \in PlayerIds, cardId \in AllCards :
        playCardError(state, playerId, cardId) = "ok" =>
            LET t == playCard(state, playerId, cardId)
            IN /\ cardId \in handSetOf(state, playerId)
               /\ t.players[playerId].hand = without(state.players[playerId].hand, cardId)
               /\ Len(t.players[playerId].hand) = Len(state.players[playerId].hand) - 1
               /\ t.currentTrick.cards
                     = Append(state.currentTrick.cards, [playerId |-> playerId, card |-> cardId])
               /\ t.currentTrick.leadingSuit
                     = IF state.currentTrick.cards = <<>> THEN Suit(cardId)
                       ELSE state.currentTrick.leadingSuit
               /\ t.currentTrick.winnerId = state.currentTrick.winnerId
               /\ t.currentPlayerIndex = (state.currentPlayerIndex + 1) % 4
               /\ t.phase = state.phase
               /\ \A q \in PlayerIds \ {playerId} : t.players[q] = state.players[q]
               /\ \A q \in PlayerIds :
                     /\ t.players[q].tricksTaken = state.players[q].tricksTaken
                     /\ t.players[q].score = state.players[q].score
                     /\ t.players[q].handScore = state.players[q].handScore
                     /\ t.players[q].selectedCards = state.players[q].selectedCards
                     /\ t.players[q].isReady = state.players[q].isReady
               /\ t.completedTricks = state.completedTricks
               /\ t.firstTrick = state.firstTrick
               /\ t.passDirection = state.passDirection
               /\ t.handNumber = state.handNumber
               /\ t.deck = state.deck

\* how many tricks the four players have taken
tricksTakenCount ==
    Len(state.players[0].tricksTaken) + Len(state.players[1].tricksTaken)
        + Len(state.players[2].tricksTaken) + Len(state.players[3].tricksTaken)

\* C37: the players have taken as many tricks as are completed, every trick
\* taken is 4 cards, every completed trick names its winner and its cards are
\* one of the tricks that winner has taken.
TrickAccounting ==
    /\ tricksTakenCount = Len(state.completedTricks)
    /\ \A p \in PlayerIds : \A i \in DOMAIN state.players[p].tricksTaken :
          Len(state.players[p].tricksTaken[i]) = 4
    /\ \A i \in DOMAIN state.completedTricks :
          LET trick == state.completedTricks[i]
          IN /\ trick.winnerId # Null
             /\ trick.winnerId \in PlayerIds
             /\ \E k \in DOMAIN state.players[trick.winnerId].tricksTaken :
                   state.players[trick.winnerId].tricksTaken[k] = trickCards(trick)

\* C38: in a Playing state whose trick holds 1 to 4 cards and was led by
\* seat L, card k (from 0) is of seat (L + k) mod 4; with fewer than 4 cards
\* the player to move is seat (L + n) mod 4 and has no card in the trick.
SeatRotation ==
    LET cards == state.currentTrick.cards
        n == Len(cards)
    IN (state.phase = Playing /\ n >= 1 /\ n <= 4) =>
          LET L == cards[1].playerId
          IN /\ \A k \in 0..(n - 1) : cards[k + 1].playerId = (L + k) % 4
             /\ n < 4 =>
                   /\ state.currentPlayerIndex = (L + n) % 4
                   /\ \A k \in 1..n : cards[k].playerId # state.currentPlayerIndex

\* the sum of the four cumulative scores in st
scoreSum(st) ==
    st.players[0].score + st.players[1].score + st.players[2].score + st.players[3].score

\* C39: a score changes only in the step that completes the last trick of a
\* hand, no score goes down, and that step adds MoonPoints to the sum of the
\* scores, or three times MoonPoints exactly when one player has taken all
\* the points.
ScoredOnce ==
    /\ [][(\E p \in PlayerIds : state'.players[p].score # state.players[p].score)
             => (HandEnded /\ state'.handNumber = state.handNumber)]_vars
    /\ [][\A p \in PlayerIds : state'.players[p].score >= state.players[p].score]_vars
    /\ [][HandEnded =>
             IF \E p \in PlayerIds : pointsTaken(state', p) = MoonPoints
             THEN scoreSum(state') = scoreSum(state) + 3 * MoonPoints
             ELSE scoreSum(state') = scoreSum(state) + MoonPoints]_vars

\* the most hands that can be scored with every score left below 100: 15 for
\* the 26 points of the full deck
MaxHandNumber == (4 * 99) \div MoonPoints

\* C40: handNumber is at most MaxHandNumber, so a game has at most
\* MaxHandNumber + 1 hands: the scores sum to at least MoonPoints for every
\* hand scored, and startNewHand is accepted only with every score below 100.
BoundedGameLength ==
    /\ state.handNumber <= MaxHandNumber
    /\ scoreSum(state) >= MoonPoints *
          (state.handNumber + IF state.phase \in {HandComplete, GameOver} THEN 1 ELSE 0)
    /\ startNewHandError(state) = "ok" =>
          \A p \in PlayerIds : state.players[p].score < 100

\* ------------------------------------------------------------- witnesses
\* C6: a card has been accepted and the player to move holds a card that is
\* refused
PlayCardPreconditionWitness ==
    /\ state.phase = Playing
    /\ Len(state.currentTrick.cards) \in 1..3
    /\ \E c \in handSet(state.currentPlayerIndex) :
          playCardError(state, state.currentPlayerIndex, c) = "Invalid play"
    /\ \E c \in handSet(state.currentPlayerIndex) :
          playCardError(state, state.currentPlayerIndex, c) = "ok"

\* C7: a follower has played off the leading suit
MustFollowSuitWitness ==
    \E i \in DOMAIN state.currentTrick.cards :
        i > 1 /\ Suit(state.currentTrick.cards[i].card) # state.currentTrick.leadingSuit

heartsInCompletedTricks ==
    \E i \in DOMAIN state.completedTricks : trickContainsHearts(state.completedTricks[i])

\* C8: a Hearts card was led before any Hearts card had been played (from a
\* hand of Hearts only)
NoHeartsLeadUntilBrokenWitness ==
    /\ state.phase = Playing
    /\ Len(state.currentTrick.cards) = 1
    /\ Suit(state.currentTrick.cards[1].card) = Hearts
    /\ ~heartsInCompletedTricks

\* C8: a non-Hearts card was led by a player holding Hearts while hearts were
\* unbroken
HeartsLeadRefusedWitness ==
    /\ state.phase = Playing
    /\ Len(state.currentTrick.cards) = 1
    /\ state.completedTricks # <<>>
    /\ ~state.heartsBroken
    /\ \E c \in handSet(state.currentTrick.cards[1].playerId) : Suit(c) = Hearts

\* C9: on the first trick a follower has played a Hearts card or the Queen of
\* Spades
NoPointsOnFirstTrickWitness ==
    /\ state.phase = Playing
    /\ state.firstTrick
    /\ \E i \in DOMAIN state.currentTrick.cards :
          i > 1 /\ isForbiddenOnFirstTrick(state.currentTrick.cards[i].card)

\* C10: the first card of a hand has been played while its leader held other
\* cards, Clubs among them
FirstTrickLeadWitness ==
    /\ state.phase = Playing
    /\ state.completedTricks = <<>>
    /\ Len(state.currentTrick.cards) = 1
    /\ \E c \in handSet(state.currentTrick.cards[1].playerId) : Suit(c) = Clubs

\* C11: a completed trick holds an off-suit card that outranks every card of
\* the leading suit, and was not won by its leader
TrickWinnerWitness ==
    \E k \in DOMAIN state.completedTricks :
        LET t == state.completedTricks[k]
        IN /\ t.winnerId # t.cards[1].playerId
           /\ \E j \in DOMAIN t.cards :
                 /\ Suit(t.cards[j].card) # t.leadingSuit
                 /\ \A i \in ofLeadingSuit(t) : Rank(t.cards[i].card) < Rank(t.cards[j].card)

handJustScored ==
    /\ state.phase \in {HandComplete, GameOver}
    /\ Len(state.completedTricks) = HandSize

\* C16: a hand has been scored in which two players took points, nobody all
\* of them, on top of scores carried from earlier hands
NormalScoringWitness ==
    /\ handJustScored
    /\ \A p \in PlayerIds : pointsTaken(state, p) # MoonPoints
    /\ \E p, q \in PlayerIds :
          /\ p # q
          /\ state.players[p].handScore = 13 + 1
          /\ state.players[q].handScore > 0
          /\ state.players[p].score > state.players[p].handScore

\* C17: a hand has been scored in which one player, with a score carried from
\* earlier hands, took all the points
ShootTheMoonWitness ==
    /\ handJustScored
    /\ \E m \in PlayerIds :
          /\ pointsTaken(state, m) = MoonPoints
          /\ state.players[m].score > 0
          /\ state.players[m].handScore = 0

\* C18: the game is over with the highest score exactly 100, reached from 98
GameOverThresholdWitness ==
    /\ state.phase = GameOver
    /\ \A p \in PlayerIds : state.players[p].score <= 100
    /\ \E p \in PlayerIds : state.players[p].score = 100 /\ state.players[p].handScore = 2

\* C18: a hand is complete, not the game, with a score of 99 reached from 98
HandCompleteAt99 ==
    /\ state.phase = HandComplete
    /\ \E p \in PlayerIds : state.players[p].score = 99 /\ state.players[p].handScore = 1

\* C19: the game is over and an engine call has been accepted since: the
\* last trick, still in currentTrick, was completed a second time
GameOverTerminalWitness ==
    /\ state.phase = GameOver
    /\ Len(state.completedTricks) = HandSize + 1

\* C20: a hand dealt without passing (Dealing -> Playing) has been played to
\* HandComplete and startNewHand has opened the next one, in phase Dealing
PhaseGraphWitness ==
    /\ state.phase = Dealing
    /\ state.handNumber > 0
    /\ getPassDirection(state.handNumber - 1) = None

\* C21: a hand played without passing is over and startNewHand has opened
\* the next hand, whose number is a multiple of 4
PassDirectionCycleWitness ==
    /\ state.phase = Dealing
    /\ state.handNumber > 0
    /\ state.handNumber % 4 = 0

\* C22: a pass to the right has been executed and seat 0 no longer holds
\* the hand it was dealt
PassExchangeWitness ==
    /\ state.phase = Playing
    /\ state.passDirection = Right
    /\ \A deck \in createHeartsDeck :
          state.players[0].hand # dealCards(createGame(deck)).players[0].hand

\* C23: a pass across has been executed, seat 0 holding other cards than
\* it was dealt and nothing selected
ExecutePassPreconditionWitness ==
    /\ state.phase = Playing
    /\ state.passDirection = Across
    /\ \A p \in PlayerIds : state.players[p].selectedCards = {} /\ ~state.players[p].isReady
    /\ \A deck \in createHeartsDeck :
          state.players[0].hand # dealCards(createGame(deck)).players[0].hand

\* C24: in phase Passing one player has selected 3 cards and holds another,
\* which is refused, and another player has 2 selected
SelectionInvariantWitness ==
    /\ state.phase = Passing
    /\ \E p, q \in PlayerIds :
          /\ state.players[p].isReady
          /\ handSet(p) \ state.players[p].selectedCards # {}
          /\ Cardinality(state.players[q].selectedCards) = 2

\* C25: the Queen of Spades went in an earlier trick that held no Hearts
\* card, and the first Hearts card of the hand has now been played
HeartsBrokenWitness ==
    /\ state.phase = Playing
    /\ state.heartsBroken
    /\ \E i \in DOMAIN state.completedTricks :
          QueenOfSpades \in Range(trickCards(state.completedTricks[i]))
    /\ \A i \in DOMAIN state.completedTricks :
          \A c \in Range(trickCards(state.completedTricks[i])) : Suit(c) # Hearts
    /\ \E c \in Range(trickCards(state.currentTrick)) : Suit(c) = Hearts

\* C26: the first trick of a hand has been completed and the second is
\* being played with firstTrick false
FirstTrickFlagWitness ==
    /\ state.phase = Playing
    /\ Len(state.completedTricks) = 1
    /\ state.currentTrick.cards # <<>>
    /\ ~state.firstTrick

\* C27: the first hand of a game has been played and scored and
\* startNewHand has opened the second
StartNewHandFrameWitness ==
    /\ state.phase = Dealing
    /\ state.handNumber = 1
    /\ \E p \in PlayerIds : state.players[p].score > 0
    /\ \A p \in PlayerIds : state.players[p].tricksTaken = <<>>

\* C28: a hand has just been dealt, straight into play
DealAllWitness ==
    /\ state.phase = Playing
    /\ state.passDirection = None
    /\ state.currentTrick.cards = <<>>
    /\ state.completedTricks = <<>>
    /\ state.deck = <<>>
    /\ \A p \in PlayerIds : Len(state.players[p].hand) = HandSize

\* C29: an AI player has just played and the next, an AI player too, has
\* several legal plays of which SimpleAI does not pick the first
AIPlaysLegalWitness ==
    /\ state.phase = Playing
    /\ Len(state.currentTrick.cards) > 0
    /\ state.currentTrick.cards[Len(state.currentTrick.cards)].playerId # HUMAN_PLAYER_INDEX
    /\ \E p \in PlayerIds \ {HUMAN_PLAYER_INDEX} :
          /\ state.currentPlayerIndex = p
          /\ Len(getValidPlays(state, p)) > 1
          /\ SimpleAI_selectCardToPlay(state, p) # getValidPlays(state, p)[1]

\* C30: the passing timer has run with SimpleAI while the human player is
\* still choosing
AIPassesWellFormedWitness ==
    /\ state.phase = Passing
    /\ Cardinality(state.players[HUMAN_PLAYER_INDEX].selectedCards) = 1
    /\ \A p \in PlayerIds \ {HUMAN_PLAYER_INDEX} :
          /\ state.players[p].isReady
          /\ state.players[p].selectedCards
                = Range(SimpleAI_selectCardsToPass(state.players[p].hand))

\* C31: a game played to its end, where all five calls are refused
PhaseGuardsWitness ==
    /\ state.phase = GameOver
    /\ Len(state.completedTricks) = HandSize
    /\ dealCardsError(state) # "ok"
    /\ executePassError(state) # "ok"
    /\ startNewHandError(state) # "ok"
    /\ \A playerId \in PlayerIds, cardId \in AllCards :
          /\ selectCardToPassError(state, playerId, cardId) # "ok"
          /\ playCardError(state, playerId, cardId) # "ok"

\* C32: an AI player with nothing but Hearts, and several of them, has led
\* the lowest: SimpleAI sorted that hand in place on the way
NoInputMutationWitness ==
    /\ state.phase = Playing
    /\ Len(state.currentTrick.cards) = 1
    /\ LET led == state.currentTrick.cards[1]
       IN /\ led.playerId # HUMAN_PLAYER_INDEX
          /\ Suit(led.card) = Hearts
          /\ state.players[led.playerId].hand # <<>>
          /\ \A c \in Range(state.players[led.playerId].hand) :
                Suit(c) = Hearts /\ Rank(c) > Rank(led.card)

\* C35: the passing timer has run with SimpleAI for a player who holds the
\* Queen of Spades and a high Heart, and both are among the 3 selected
SimpleAIPassWitness ==
    /\ state.phase = Passing
    /\ \E p \in PlayerIds \ {HUMAN_PLAYER_INDEX} :
          /\ state.players[p].isReady
          /\ state.players[p].selectedCards
                = Range(SimpleAI_selectCardsToPass(state.players[p].hand))
          /\ QueenOfSpades \in state.players[p].selectedCards
          /\ \E c \in state.players[p].selectedCards : dangerClass(c) = 1
          /\ Range(state.players[p].hand) \ state.players[p].selectedCards # {}

\* C36: a card has been played onto a trick led in another suit
PlayCardFrameWitness ==
    /\ state.phase = Playing
    /\ Len(state.currentTrick.cards) = 2
    /\ Suit(state.currentTrick.cards[2].card) # state.currentTrick.leadingSuit
    /\ Suit(state.currentTrick.cards[1].card) = state.currentTrick.leadingSuit
    /\ state.currentPlayerIndex = (state.currentTrick.cards[2].playerId + 1) % 4

\* C37: three tricks are completed and two players have taken them
TrickAccountingWitness ==
    /\ Len(state.completedTricks) = 3
    /\ state.completedTricks[1].winnerId # state.completedTricks[2].winnerId
    /\ state.completedTricks[3].winnerId = state.completedTricks[1].winnerId
    /\ Len(state.players[state.completedTricks[1].winnerId].tricksTaken) = 2

\* C38: a later trick, led by seat 2, has gone round past seat 3 to seat 0,
\* and seat 1 is to play
SeatRotationWitness ==
    /\ state.phase = Playing
    /\ state.completedTricks # <<>>
    /\ Len(state.currentTrick.cards) = 3
    /\ state.currentTrick.cards[1].playerId = 2
    /\ state.currentTrick.cards[3].playerId = 0
    /\ state.currentPlayerIndex = 1

\* C39: the first hand of a game has been scored, once, and its last trick
\* completed a second time since
ScoredOnceWitness ==
    /\ state.phase = HandComplete
    /\ state.handNumber = 0
    /\ Len(state.completedTricks) = HandSize + 1
    /\ scoreSum(state) = MoonPoints

\* C40: the hand numbered MaxHandNumber has been played and scored, and the
\* game is over
BoundedGameLengthWitness ==
    /\ state.handNumber = MaxHandNumber
    /\ state.phase = GameOver
    /\ Len(state.completedTricks) = HandSize
    /\ startNewHandError(state) # "ok"

TypeOK ==
    /\ state.phase \in {Dealing, Passing, Playing, HandComplete, GameOver}
    /\ state.currentPlayerIndex \in PlayerIds
    /\ state.passDirection \in {Left, Right, Across, None}
    /\ \A p \in PlayerIds : Range(state.players[p].hand) \subseteq AllCards

====
